---- MODULE Spec2Model ----
(***************************************************************************)
(* Model of the git middleware of wish (git/git.go).                       *)
(*                                                                         *)
(* Every ssh session runs the handler returned by                          *)
(* MiddlewareWithPushCallback.  Sessions run concurrently and share only   *)
(* the filesystem below repoDir.  Each call that touches the filesystem or *)
(* spawns a subprocess is one atomic step of its session; the code between *)
(* two such calls is session-local and belongs to the step it follows.     *)
(* trace[s] records, in program order, every observable call session s has *)
(* made (AuthRepo, stat, MkdirAll, exec, log, Write, Exit, cb, sh).        *)
(***************************************************************************)
EXTENDS Integers, Sequences, FiniteSets, TLC

\* ---------------------------------------------------------------- bounds
MaxBranches == 3

\* The sessions the server handles concurrently.
Sessions == {"s1", "s2"}
\* Branch names a client can push, ordered as their names are.
BranchNames == 1 .. MaxBranches
\* The branch an empty bare repository's HEAD names (git's initial branch).
InitialBranch == MaxBranches

\* ------------------------------------------------------ program constants
ErrNotAuthed == "you are not authorized to do this"
ErrSystemMalfunction == "something went wrong"

NoAccess == 0
ReadOnlyAccess == 1
ReadWriteAccess == 2
AdminAccess == 3
AccessLevel == {NoAccess, ReadOnlyAccess, ReadWriteAccess, AdminAccess}

\* ------------------------------------------------------------ environment
RepoDir == "/repos/"
Repos == {"app.git"}
\* What s.Command() can return: every shape the dispatcher distinguishes.
Commands ==
    {<<>>, <<"git-receive-pack">>}
    \cup {<<gc, r>> : gc \in {"git-receive-pack", "git-upload-pack",
                              "git-upload-archive", "ls"}, r \in Repos}
    \cup {<<"git-receive-pack", r, "x">> : r \in Repos}
\* s.PublicKey(): each session carries its own key.
PublicKey(s) == "key-" \o s

\* The errors the calls of this file can return (nil when none).
Nil == "nil"
ErrReferenceNotFound == "reference not found"

VARIABLES
    pc,         \* pc[s]: the call session s makes next ("Done": handler returned)
    cmd,        \* cmd[s]: s.Command()
    access,     \* access[s]: what AuthRepo returned
    err,        \* err[s]: the error the push or fetch path returned
    fb,         \* fb[s]: first branch of the enumeration (0 when none)
    trace,      \* trace[s]: the calls made so far
    cb,         \* whether a PushCallback was passed (cb != nil)
    dirs,       \* the paths that exist on disk
    branches,   \* branches[r]: refs/heads of the repository
    head,       \* head[r]: the branch HEAD names
    running,    \* running[s]: a subprocess of s has been started and not reaped
    cancelled   \* cancelled[s]: s.Context() is done

vars == <<pc, cmd, access, err, fb, trace, cb, dirs, branches, head,
          running, cancelled>>

Ev(op, a, n) == [op |-> op, a |-> a, n |-> n]

\* ------------------------------------------------------------- fatalGit
HexDigit(d) ==
    CASE d = 0 -> "0" [] d = 1 -> "1" [] d = 2 -> "2" [] d = 3 -> "3"
      [] d = 4 -> "4" [] d = 5 -> "5" [] d = 6 -> "6" [] d = 7 -> "7"
      [] d = 8 -> "8" [] d = 9 -> "9" [] d = 10 -> "a" [] d = 11 -> "b"
      [] d = 12 -> "c" [] d = 13 -> "d" [] d = 14 -> "e" [] OTHER -> "f"

RECURSIVE HexStr(_)
HexStr(n) == IF n < 16 THEN HexDigit(n) ELSE HexStr(n \div 16) \o HexDigit(n % 16)

RECURSIVE ZeroPad4(_)
ZeroPad4(str) == IF Len(str) < 4 THEN ZeroPad4("0" \o str) ELSE str

\* Variant of PktLine: the length leaves out the trailing newline.
PktLineShort(msg) == ZeroPad4(HexStr(Len(msg) + 4)) \o msg \o "\n"

\* fmt.Sprintf("%04x%s\n", len(msg)+5, msg)
PktLine(msg) == ZeroPad4(HexStr(Len(msg) + 5)) \o msg \o "\n"

\* fatalGit(s, e): s.Write(pktLine) then s.Exit(1), appended to the trace.
fatalGit(tr, e) == tr \o <<Ev("Write", <<PktLine(e)>>, 0), Ev("Exit", <<>>, 1)>>

\* ----------------------------------------------------------- filesystem
RepoPath(dir, repo) == dir \o repo

\* fileExists(path): (true, nil), (false, nil), or (true, err) when stat fails
\* for a reason other than not-exist.
fileExists(path) ==
    {<<path \in dirs, Nil>>, <<TRUE, "stat">>}

\* The record of a stat call: the path, the error, and whether it exists.
StatEv(path, res) == Ev("stat", <<path, res[2]>>, IF res[1] THEN 1 ELSE 0)

Init ==
    /\ pc = [s \in Sessions |-> "Idle"]
    /\ cmd = [s \in Sessions |-> <<>>]
    /\ access = [s \in Sessions |-> NoAccess]
    /\ err = [s \in Sessions |-> Nil]
    /\ fb = [s \in Sessions |-> 0]
    /\ trace = [s \in Sessions |-> <<>>]
    /\ cb \in BOOLEAN
    /\ dirs \in {{}, {RepoDir}}
    /\ branches = [r \in Repos |-> {}]
    /\ head = [r \in Repos |-> InitialBranch]
    /\ running = [s \in Sessions |-> FALSE]
    /\ cancelled = [s \in Sessions |-> FALSE]

\* The repository identifier of session s (cmd[1] of a two-element command).
Repo(s) == cmd[s][2]
Rp(s) == RepoPath(RepoDir, Repo(s))

Goto(s, label) == pc' = [pc EXCEPT ![s] = label]
Record(s, tr) == trace' = [trace EXCEPT ![s] = tr]

\* A step of gitReceivePack / gitUploadPack returns e to the handler.
ReturnTo(s, label, e) ==
    /\ Goto(s, label)
    /\ err' = [err EXCEPT ![s] = e]

\* Variant of Dispatch: a push is let through for any access above NoAccess.
DispatchPushReadOnly(s, gc, a, tr) ==
    CASE gc = "git-receive-pack" ->
            IF a # NoAccess
            THEN <<"ensureRepo", tr>>
            ELSE <<"Done", fatalGit(tr, ErrNotAuthed) \o <<Ev("sh", <<>>, 0)>> >>
      [] gc \in {"git-upload-archive", "git-upload-pack"} ->
            IF a \in {ReadOnlyAccess, ReadWriteAccess, AdminAccess}
            THEN <<"gitUploadPack", tr>>
            ELSE <<"Done", fatalGit(tr, ErrNotAuthed) \o <<Ev("sh", <<>>, 0)>> >>
      [] OTHER -> <<"Done", tr \o <<Ev("sh", <<>>, 0)>> >>

\* Variant of Dispatch: the handler returns right after reporting NotAuthed.
DispatchReturnAfterFatal(s, gc, a, tr) ==
    CASE gc = "git-receive-pack" ->
            IF a \in {ReadWriteAccess, AdminAccess}
            THEN <<"ensureRepo", tr>>
            ELSE <<"Done", fatalGit(tr, ErrNotAuthed)>>
      [] gc \in {"git-upload-archive", "git-upload-pack"} ->
            IF a \in {ReadOnlyAccess, ReadWriteAccess, AdminAccess}
            THEN <<"gitUploadPack", tr>>
            ELSE <<"Done", fatalGit(tr, ErrNotAuthed)>>
      [] OTHER -> <<"Done", tr \o <<Ev("sh", <<>>, 0)>> >>

\* Variant of Dispatch: an unknown subcommand is reported as not authorized.
DispatchUnknownDenied(s, gc, a, tr) ==
    CASE gc = "git-receive-pack" ->
            IF a \in {ReadWriteAccess, AdminAccess}
            THEN <<"ensureRepo", tr>>
            ELSE <<"Done", fatalGit(tr, ErrNotAuthed) \o <<Ev("sh", <<>>, 0)>> >>
      [] gc \in {"git-upload-archive", "git-upload-pack"} ->
            IF a \in {ReadOnlyAccess, ReadWriteAccess, AdminAccess}
            THEN <<"gitUploadPack", tr>>
            ELSE <<"Done", fatalGit(tr, ErrNotAuthed) \o <<Ev("sh", <<>>, 0)>> >>
      [] OTHER -> <<"Done", fatalGit(tr, ErrNotAuthed) \o <<Ev("sh", <<>>, 0)>> >>

\* Lines 64-90: the switch on the subcommand and the access level, up to the
\* first call that touches the disk.  Yields <<next label, trace>>.
Dispatch(s, gc, a, tr) ==
    CASE gc = "git-receive-pack" ->
            IF a \in {ReadWriteAccess, AdminAccess}
            THEN <<"ensureRepo", tr>>
            ELSE <<"Done", fatalGit(tr, ErrNotAuthed) \o <<Ev("sh", <<>>, 0)>> >>
      [] gc \in {"git-upload-archive", "git-upload-pack"} ->
            IF a \in {ReadOnlyAccess, ReadWriteAccess, AdminAccess}
            THEN <<"gitUploadPack", tr>>
            ELSE <<"Done", fatalGit(tr, ErrNotAuthed) \o <<Ev("sh", <<>>, 0)>> >>
      [] OTHER -> <<"Done", tr \o <<Ev("sh", <<>>, 0)>> >>

\* Variant of Handler: AuthRepo is asked again when it answers NoAccess.
HandlerAuthRetry(s) ==
    /\ pc[s] = "Idle"
    /\ \E c \in Commands :
        /\ cmd' = [cmd EXCEPT ![s] = c]
        /\ IF Len(c) = 2
           THEN \E a0, a \in AccessLevel :
                  LET ask == Ev("AuthRepo", <<c[2], PublicKey(s)>>, 0)
                      d == Dispatch(s, c[1], a,
                                    IF a0 = NoAccess THEN <<ask, ask>> ELSE <<ask>>)
                  IN /\ a0 # NoAccess => a = a0
                     /\ access' = [access EXCEPT ![s] = a]
                     /\ Goto(s, d[1])
                     /\ Record(s, d[2])
           ELSE /\ access' = access
                /\ Goto(s, "Done")
                /\ Record(s, <<Ev("sh", <<>>, 0)>>)
    /\ UNCHANGED <<err, fb, cb, dirs, branches, head>>

\* Variant of Handler: AuthRepo is asked only for the three git subcommands.
HandlerAuthGitOnly(s) ==
    /\ pc[s] = "Idle"
    /\ \E c \in Commands :
        /\ cmd' = [cmd EXCEPT ![s] = c]
        /\ IF Len(c) = 2
           THEN \E a \in AccessLevel :
                  LET known == c[1] \in {"git-receive-pack", "git-upload-archive",
                                         "git-upload-pack"}
                      d == Dispatch(s, c[1], a,
                                    IF known
                                    THEN <<Ev("AuthRepo", <<c[2], PublicKey(s)>>, 0)>>
                                    ELSE <<>>)
                  IN /\ access' = [access EXCEPT ![s] = IF known THEN a ELSE NoAccess]
                     /\ Goto(s, d[1])
                     /\ Record(s, d[2])
           ELSE /\ access' = access
                /\ Goto(s, "Done")
                /\ Record(s, <<Ev("sh", <<>>, 0)>>)
    /\ UNCHANGED <<err, fb, cb, dirs, branches, head>>

\* Lines 57-63: a session arrives; the handler reads its command and, when it
\* has two elements, asks AuthRepo, which may answer any access level.
Handler(s) ==
    /\ pc[s] = "Idle"
    /\ \E c \in Commands :
        /\ cmd' = [cmd EXCEPT ![s] = c]
        /\ IF Len(c) = 2
           THEN \E a \in AccessLevel :
                  LET d == Dispatch(s, c[1], a,
                                    <<Ev("AuthRepo", <<c[2], PublicKey(s)>>, 0)>>)
                  IN /\ access' = [access EXCEPT ![s] = a]
                     /\ Goto(s, d[1])
                     /\ Record(s, d[2])
           ELSE /\ access' = access
                /\ Goto(s, "Done")
                /\ Record(s, <<Ev("sh", <<>>, 0)>>)
    /\ UNCHANGED <<err, fb, cb, dirs, branches, head>>

\* ensureRepo, lines 200-204: fileExists(dir).
EnsureRepoStatDir(s) ==
    /\ pc[s] = "ensureRepo"
    /\ \E res \in fileExists(RepoDir) :
        /\ Record(s, Append(trace[s], StatEv(RepoDir, res)))
        /\ IF res[2] # Nil THEN ReturnTo(s, "pushReturned", res[2])
           ELSE /\ Goto(s, IF res[1] THEN "statRepo" ELSE "MkdirAll")
                /\ err' = err
    /\ UNCHANGED <<cmd, access, fb, cb, dirs, branches, head>>

\* ensureRepo, lines 205-208: os.MkdirAll(dir, 0700).
EnsureRepoMkdirAll(s) ==
    /\ pc[s] = "MkdirAll"
    /\ Record(s, Append(trace[s], Ev("MkdirAll", <<RepoDir>>, 0)))
    /\ \/ /\ dirs' = dirs \cup {RepoDir}
          /\ Goto(s, "statRepo")
          /\ err' = err
       \/ /\ dirs' = dirs
          /\ ReturnTo(s, "pushReturned", "mkdir")
    /\ UNCHANGED <<cmd, access, fb, cb, branches, head>>

\* ensureRepo, lines 210-215: fileExists(rp).
EnsureRepoStatRepo(s) ==
    /\ pc[s] = "statRepo"
    /\ \E res \in fileExists(Rp(s)) :
        /\ Record(s, Append(trace[s], StatEv(Rp(s), res)))
        /\ IF res[2] # Nil THEN ReturnTo(s, "pushReturned", res[2])
           ELSE /\ Goto(s, IF res[1] THEN "runReceivePack" ELSE "gitInit")
                /\ err' = err
    /\ UNCHANGED <<cmd, access, fb, cb, dirs, branches, head>>

\* ensureRepo, lines 216-220: git init --bare rp.  A repository that is
\* already there is reinitialised and keeps its refs.
EnsureRepoGitInit(s) ==
    /\ pc[s] = "gitInit"
    /\ Record(s, Append(trace[s], Ev("exec", <<"git", "init", "--bare", Rp(s)>>, 0)))
    /\ \/ /\ dirs' = dirs \cup {Rp(s)}
          /\ Goto(s, "runReceivePack")
          /\ err' = err
       \/ /\ dirs' = dirs
          /\ ReturnTo(s, "pushReturned", "exec")
    /\ UNCHANGED <<cmd, access, fb, cb, branches, head>>

\* gitReceivePack, lines 104-107: runCmd(s, "./", gitCmd, rp).  The client
\* decides which branches the push leaves; git refuses to delete the branch
\* HEAD resolves to.  A failed receive-pack leaves the refs as they were.
RunReceivePack(s) ==
    /\ pc[s] = "runReceivePack"
    /\ Record(s, Append(trace[s], Ev("exec", <<"./", cmd[s][1], Rp(s)>>, 0)))
    /\ \/ /\ \E bs \in SUBSET BranchNames :
                /\ head[Repo(s)] \in branches[Repo(s)] => head[Repo(s)] \in bs
                /\ branches' = [branches EXCEPT ![Repo(s)] = bs]
          /\ Goto(s, "updateServerInfo")
          /\ err' = err
       \/ /\ branches' = branches
          /\ ReturnTo(s, "pushReturned", "exec")
    /\ UNCHANGED <<cmd, access, fb, cb, dirs, head>>

\* Variant of UpdateServerInfo: the error is kept but the function goes on.
UpdateServerInfoNoReturn(s) ==
    /\ pc[s] = "updateServerInfo"
    /\ Record(s, Append(trace[s], Ev("exec", <<Rp(s), "git", "update-server-info">>, 0)))
    /\ \/ /\ Goto(s, "ensureDefaultBranch")
          /\ err' = err
       \/ /\ Goto(s, "ensureDefaultBranch")
          /\ err' = [err EXCEPT ![s] = "exec"]
    /\ UNCHANGED <<cmd, access, fb, cb, dirs, branches, head>>

\* gitReceivePack, lines 108-111: runCmd(s, rp, "git", "update-server-info").
UpdateServerInfo(s) ==
    /\ pc[s] = "updateServerInfo"
    /\ Record(s, Append(trace[s], Ev("exec", <<Rp(s), "git", "update-server-info">>, 0)))
    /\ \/ /\ Goto(s, "ensureDefaultBranch")
          /\ err' = err
       \/ ReturnTo(s, "pushReturned", "exec")
    /\ UNCHANGED <<cmd, access, fb, cb, dirs, branches, head>>

\* Variant of EnsureDefaultBranch: a repository without branches needs no
\* default branch, so the end of the enumeration is not an error.
EnsureDefaultBranchEmptyOk(s) ==
    /\ pc[s] = "ensureDefaultBranch"
    /\ \/ /\ Record(s, Append(trace[s], Ev("PlainOpen", <<"open">>, 0)))
          /\ ReturnTo(s, "pushReturned", "open")
          /\ fb' = fb
       \/ /\ Record(s, Append(trace[s], Ev("Branches", <<"branches">>, 0)))
          /\ ReturnTo(s, "pushReturned", "branches")
          /\ fb' = fb
       \/ /\ branches[Repo(s)] = {}
          /\ Record(s, Append(trace[s], Ev("Next", <<"EOF">>, 0)))
          /\ ReturnTo(s, "pushReturned", Nil)
          /\ fb' = fb
       \/ \E b \in branches[Repo(s)] :
            /\ Record(s, Append(trace[s], Ev("Next", <<Nil>>, b)))
            /\ fb' = [fb EXCEPT ![s] = b]
            /\ Goto(s, "Head")
            /\ err' = err
    /\ UNCHANGED <<cmd, access, cb, dirs, branches, head>>

\* ensureDefaultBranch, lines 238-250: PlainOpen, Branches, Next.  The
\* library enumerates the branches in no defined order; Next fails (EOF)
\* when there is no branch.
EnsureDefaultBranch(s) ==
    /\ pc[s] = "ensureDefaultBranch"
    /\ \/ /\ Record(s, Append(trace[s], Ev("PlainOpen", <<"open">>, 0)))
          /\ ReturnTo(s, "pushReturned", "open")
          /\ fb' = fb
       \/ /\ Record(s, Append(trace[s], Ev("Branches", <<"branches">>, 0)))
          /\ ReturnTo(s, "pushReturned", "branches")
          /\ fb' = fb
       \/ /\ branches[Repo(s)] = {}
          /\ Record(s, Append(trace[s], Ev("Next", <<"EOF">>, 0)))
          /\ ReturnTo(s, "pushReturned", "EOF")
          /\ fb' = fb
       \/ \E b \in branches[Repo(s)] :
            /\ Record(s, Append(trace[s], Ev("Next", <<Nil>>, b)))
            /\ fb' = [fb EXCEPT ![s] = b]
            /\ Goto(s, "Head")
            /\ err' = err
    /\ UNCHANGED <<cmd, access, cb, dirs, branches, head>>

\* Variant of ResolveHead: the rename is run whether or not HEAD resolves.
ResolveHeadAlwaysRename(s) ==
    /\ pc[s] = "Head"
    /\ \/ /\ head[Repo(s)] \in branches[Repo(s)]
          /\ Record(s, Append(trace[s], Ev("Head", <<Nil>>, head[Repo(s)])))
          /\ Goto(s, "branchRename")
          /\ err' = err
       \/ /\ head[Repo(s)] \notin branches[Repo(s)]
          /\ Record(s, Append(trace[s], Ev("Head", <<ErrReferenceNotFound>>, 0)))
          /\ Goto(s, "branchRename")
          /\ err' = err
       \/ /\ Record(s, Append(trace[s], Ev("Head", <<"head">>, 0)))
          /\ ReturnTo(s, "pushReturned", "head")
    /\ UNCHANGED <<cmd, access, fb, cb, dirs, branches, head>>

\* ensureDefaultBranch, lines 252-262: r.Head().  Resolved: return nil.
\* ErrReferenceNotFound: go on to the rename.  Any other error: return it.
ResolveHead(s) ==
    /\ pc[s] = "Head"
    /\ \/ /\ head[Repo(s)] \in branches[Repo(s)]
          /\ Record(s, Append(trace[s], Ev("Head", <<Nil>>, head[Repo(s)])))
          /\ ReturnTo(s, "pushReturned", Nil)
       \/ /\ head[Repo(s)] \notin branches[Repo(s)]
          /\ Record(s, Append(trace[s], Ev("Head", <<ErrReferenceNotFound>>, 0)))
          /\ Goto(s, "branchRename")
          /\ err' = err
       \/ /\ Record(s, Append(trace[s], Ev("Head", <<"head">>, 0)))
          /\ ReturnTo(s, "pushReturned", "head")
    /\ UNCHANGED <<cmd, access, fb, cb, dirs, branches, head>>

\* ensureDefaultBranch, lines 254-257: runCmd(s, rp, "git", "branch", "-M", fb).
BranchRename(s) ==
    /\ pc[s] = "branchRename"
    /\ Record(s, Append(trace[s], Ev("exec", <<Rp(s), "git", "branch", "-M">>, fb[s])))
    /\ \/ /\ head' = [head EXCEPT ![Repo(s)] = fb[s]]
          /\ ReturnTo(s, "pushReturned", Nil)
       \/ /\ head' = head
          /\ ReturnTo(s, "pushReturned", "exec")
    /\ UNCHANGED <<cmd, access, fb, cb, dirs, branches>>

\* Variant of PushReturn: the observer is invoked before the error check, and
\* again after it.
PushReturnObserverTwice(s) ==
    /\ pc[s] = "pushReturned"
    /\ LET tr0 == IF cb THEN Append(trace[s], Ev("cb", <<Repo(s), PublicKey(s)>>, 0))
                  ELSE trace[s]
           tr1 == IF err[s] # Nil
                  THEN fatalGit(Append(tr0, Ev("log", <<err[s]>>, 0)),
                                ErrSystemMalfunction)
                  ELSE tr0
           tr2 == IF cb THEN Append(tr1, Ev("cb", <<Repo(s), PublicKey(s)>>, 0))
                  ELSE tr1
       IN Record(s, Append(tr2, Ev("sh", <<>>, 0)))
    /\ Goto(s, "Done")
    /\ UNCHANGED <<cmd, access, err, fb, cb, dirs, branches, head>>

\* Variant of PushReturn: the error of the failed step is what is reported.
PushReturnLeakCause(s) ==
    /\ pc[s] = "pushReturned"
    /\ LET tr1 == IF err[s] # Nil
                  THEN fatalGit(Append(trace[s], Ev("log", <<err[s]>>, 0)), err[s])
                  ELSE trace[s]
           tr2 == IF cb THEN Append(tr1, Ev("cb", <<Repo(s), PublicKey(s)>>, 0))
                  ELSE tr1
       IN Record(s, Append(tr2, Ev("sh", <<>>, 0)))
    /\ Goto(s, "Done")
    /\ UNCHANGED <<cmd, access, err, fb, cb, dirs, branches, head>>

\* Variant of PushReturn: after the internal failure is reported the handler
\* falls into the default case and reports NotAuthed as well.
PushReturnReportTwice(s) ==
    /\ pc[s] = "pushReturned"
    /\ LET tr1 == IF err[s] # Nil
                  THEN fatalGit(fatalGit(Append(trace[s], Ev("log", <<err[s]>>, 0)),
                                         ErrSystemMalfunction), ErrNotAuthed)
                  ELSE trace[s]
           tr2 == IF cb THEN Append(tr1, Ev("cb", <<Repo(s), PublicKey(s)>>, 0))
                  ELSE tr1
       IN Record(s, Append(tr2, Ev("sh", <<>>, 0)))
    /\ Goto(s, "Done")
    /\ UNCHANGED <<cmd, access, err, fb, cb, dirs, branches, head>>

\* Lines 68-75 and 92: gitReceivePack has returned.
PushReturn(s) ==
    /\ pc[s] = "pushReturned"
    /\ LET tr1 == IF err[s] # Nil
                  THEN fatalGit(Append(trace[s], Ev("log", <<err[s]>>, 0)),
                                ErrSystemMalfunction)
                  ELSE trace[s]
           tr2 == IF cb THEN Append(tr1, Ev("cb", <<Repo(s), PublicKey(s)>>, 0))
                  ELSE tr1
       IN Record(s, Append(tr2, Ev("sh", <<>>, 0)))
    /\ Goto(s, "Done")
    /\ UNCHANGED <<cmd, access, err, fb, cb, dirs, branches, head>>

\* Variant of UploadStat: the command runs whenever stat returned no error.
UploadStatIgnoreExists(s) ==
    /\ pc[s] = "gitUploadPack"
    /\ \E res \in fileExists(Rp(s)) :
        /\ Record(s, Append(trace[s], StatEv(Rp(s), res)))
        /\ IF res[2] = Nil
           THEN /\ Goto(s, "uploadRun")
                /\ err' = err
           ELSE ReturnTo(s, "uploadReturned", Nil)
    /\ UNCHANGED <<cmd, access, fb, cb, dirs, branches, head>>

\* Variant of UploadStat: a repository that is missing is created first.
UploadStatProvision(s) ==
    /\ pc[s] = "gitUploadPack"
    /\ \E res \in fileExists(Rp(s)) :
        /\ Record(s, Append(trace[s], StatEv(Rp(s), res)))
        /\ IF res[2] # Nil
           THEN /\ ReturnTo(s, "uploadReturned", Nil)
                /\ dirs' = dirs
           ELSE /\ Goto(s, "uploadRun")
                /\ err' = err
                /\ dirs' = dirs \cup {RepoDir, Rp(s)}
    /\ UNCHANGED <<cmd, access, fb, cb, branches, head>>

\* Variant of UploadStat: the error of the existence check is returned.
UploadStatReturnErr(s) ==
    /\ pc[s] = "gitUploadPack"
    /\ \E res \in fileExists(Rp(s)) :
        /\ Record(s, Append(trace[s], StatEv(Rp(s), res)))
        /\ IF res[2] # Nil THEN ReturnTo(s, "uploadReturned", res[2])
           ELSE IF res[1]
           THEN /\ Goto(s, "uploadRun")
                /\ err' = err
           ELSE ReturnTo(s, "uploadReturned", Nil)
    /\ UNCHANGED <<cmd, access, fb, cb, dirs, branches, head>>

\* gitUploadPack, line 121: fileExists(rp); the command runs only when the
\* path exists and stat returned no error.
UploadStat(s) ==
    /\ pc[s] = "gitUploadPack"
    /\ \E res \in fileExists(Rp(s)) :
        /\ Record(s, Append(trace[s], StatEv(Rp(s), res)))
        /\ IF res[1] /\ res[2] = Nil
           THEN /\ Goto(s, "uploadRun")
                /\ err' = err
           ELSE ReturnTo(s, "uploadReturned", Nil)
    /\ UNCHANGED <<cmd, access, fb, cb, dirs, branches, head>>

\* gitUploadPack, lines 122-125: runCmd(s, "./", gitCmd, rp).
UploadRun(s) ==
    /\ pc[s] = "uploadRun"
    /\ Record(s, Append(trace[s], Ev("exec", <<"./", cmd[s][1], Rp(s)>>, 0)))
    /\ \/ ReturnTo(s, "uploadReturned", Nil)
       \/ ReturnTo(s, "uploadReturned", "exec")
    /\ UNCHANGED <<cmd, access, fb, cb, dirs, branches, head>>

\* Lines 82-86 and 92: gitUploadPack has returned.
UploadReturn(s) ==
    /\ pc[s] = "uploadReturned"
    /\ LET tr1 == IF err[s] # Nil
                  THEN fatalGit(Append(trace[s], Ev("log", <<err[s]>>, 0)),
                                ErrSystemMalfunction)
                  ELSE trace[s]
       IN Record(s, Append(tr1, Ev("sh", <<>>, 0)))
    /\ Goto(s, "Done")
    /\ UNCHANGED <<cmd, access, err, fb, cb, dirs, branches, head>>

\* The calls that neither start nor wait for a subprocess.
LocalStep(s) ==
    \/ Handler(s)
    \/ EnsureRepoStatDir(s)
    \/ EnsureRepoMkdirAll(s)
    \/ EnsureRepoStatRepo(s)
    \/ EnsureDefaultBranch(s)
    \/ ResolveHead(s)
    \/ PushReturn(s)
    \/ UploadStat(s)
    \/ UploadReturn(s)

\* c.Run() / usi.Run() taken as one step: the subprocess is started, runs to
\* its end and is reaped.
RunStep(s) ==
    \/ EnsureRepoGitInit(s)
    \/ RunReceivePack(s)
    \/ UpdateServerInfo(s)
    \/ BranchRename(s)
    \/ UploadRun(s)

\* Sessions whose context is never cancelled.
Next ==
    \E s \in Sessions :
        /\ LocalStep(s) \/ RunStep(s)
        /\ UNCHANGED <<running, cancelled>>

Spec == Init /\ [][Next]_vars

\* ------------------------------------------------------------ cancellation
\* The places where the session is inside exec.CommandContext(ctx, ...).Run().
RunLabels == {"gitInit", "runReceivePack", "updateServerInfo", "branchRename",
              "uploadRun"}

\* The subprocess the session runs at its present place.
RunEv(s) ==
    CASE pc[s] = "gitInit" -> Ev("exec", <<"git", "init", "--bare", Rp(s)>>, 0)
      [] pc[s] = "updateServerInfo" ->
            Ev("exec", <<Rp(s), "git", "update-server-info">>, 0)
      [] pc[s] = "branchRename" ->
            Ev("exec", <<Rp(s), "git", "branch", "-M">>, fb[s])
      [] OTHER -> Ev("exec", <<"./", cmd[s][1], Rp(s)>>, 0)

\* The session's context is cancelled (the client went away) while the
\* handler has not returned.
Cancel(s) ==
    /\ pc[s] \notin {"Idle", "Done"}
    /\ ~cancelled[s]
    /\ cancelled' = [cancelled EXCEPT ![s] = TRUE]
    /\ UNCHANGED <<pc, cmd, access, err, fb, trace, cb, dirs, branches, head,
                   running>>

\* Run() starts the subprocess; it does not start one when the context is
\* already done.
StartCmd(s) ==
    /\ pc[s] \in RunLabels
    /\ ~running[s]
    /\ ~cancelled[s]
    /\ running' = [running EXCEPT ![s] = TRUE]
    /\ UNCHANGED <<pc, cmd, access, err, fb, trace, cb, dirs, branches, head,
                   cancelled>>

\* The subprocess ends by itself and Run() returns its result.
CmdExits(s) ==
    /\ running[s]
    /\ RunStep(s)
    /\ running' = [running EXCEPT ![s] = FALSE]
    /\ UNCHANGED cancelled

\* Variant of ContextKill: the command is not bound to the context
\* (exec.Command), so a cancelled context ends nothing.
ContextKillNever(s) ==
    /\ pc[s] \in RunLabels
    /\ cancelled[s]
    /\ FALSE
    /\ UNCHANGED vars

\* exec.CommandContext: once the context is done the subprocess is killed (or
\* not started) and Run() returns an error.  What the killed subprocess had
\* done to the disk is taken to be nothing.
ContextKill(s) ==
    /\ pc[s] \in RunLabels
    /\ cancelled[s]
    /\ running' = [running EXCEPT ![s] = FALSE]
    /\ Record(s, Append(trace[s], RunEv(s)))
    /\ ReturnTo(s, IF pc[s] = "uploadRun" THEN "uploadReturned" ELSE "pushReturned",
                "killed")
    /\ UNCHANGED <<cmd, access, fb, cb, dirs, branches, head, cancelled>>

NextCancel ==
    \E s \in Sessions :
        \/ LocalStep(s) /\ UNCHANGED <<running, cancelled>>
        \/ Cancel(s)
        \/ StartCmd(s)
        \/ CmdExits(s)
        \/ ContextKill(s)

\* One session at a time: the other has been handed an empty command and is
\* over.  The kill of a cancelled context's subprocess is the only step that
\* is sure to happen; a subprocess need never end by itself.
InitCancel ==
    /\ pc = [s \in Sessions |-> IF s = "s1" THEN "Idle" ELSE "Done"]
    /\ cmd = [s \in Sessions |-> <<>>]
    /\ access = [s \in Sessions |-> NoAccess]
    /\ err = [s \in Sessions |-> Nil]
    /\ fb = [s \in Sessions |-> 0]
    /\ trace = [s \in Sessions |-> IF s = "s1" THEN <<>> ELSE <<Ev("sh", <<>>, 0)>>]
    /\ cb \in BOOLEAN
    /\ dirs \in {{}, {RepoDir} \cup {RepoPath(RepoDir, r) : r \in Repos}}
    /\ branches = [r \in Repos |-> {}]
    /\ head = [r \in Repos |-> InitialBranch]
    /\ running = [s \in Sessions |-> FALSE]
    /\ cancelled = [s \in Sessions |-> FALSE]

SpecCancel ==
    /\ InitCancel
    /\ [][NextCancel]_vars
    /\ \A s \in Sessions : WF_vars(ContextKill(s))

\* ------------------------------------------------------------ observations
Done(s) == pc[s] = "Done"
\* The indices of the calls of kind op in a trace.
Ops(tr, op) == {i \in DOMAIN tr : tr[i].op = op}
\* The byte strings written to the session output, in order.
Written(tr) == SelectSeq(tr, LAMBDA e : e.op = "Write")
\* The exit statuses the session was given, in order.
Exits(tr) == SelectSeq(tr, LAMBDA e : e.op = "Exit")
UploadCommands == {"git-upload-pack", "git-upload-archive"}
GitCommands == {"git-receive-pack"} \cup UploadCommands
\* The session carries (subcommand, repository identifier).
IsPair(s) == Len(cmd[s]) = 2
IsPush(s) == IsPair(s) /\ cmd[s][1] = "git-receive-pack"
IsUpload(s) == IsPair(s) /\ cmd[s][1] \in UploadCommands
\* The session's access level is insufficient for its subcommand.
Denied(s) ==
    \/ IsPush(s) /\ access[s] \in {NoAccess, ReadOnlyAccess}
    \/ IsUpload(s) /\ access[s] = NoAccess
NotAuthedPkt == "0026you are not authorized to do this\n"
MalfunctionPkt == "0019something went wrong\n"
\* The calls of a session that change the disk or spawn a process.
Effects(tr) == Ops(tr, "exec") \cup Ops(tr, "MkdirAll")

\* C1: a session denied access writes only the pkt-line of "you are not
\* authorized to do this", is exited with status 1, spawns no subprocess and
\* creates neither the root directory nor a repository.
C1_DeniedOnlyReports ==
    \A s \in Sessions :
        Denied(s) =>
            /\ Written(trace[s]) = <<Ev("Write", <<NotAuthedPkt>>, 0)>>
            /\ Exits(trace[s]) = <<Ev("Exit", <<>>, 1)>>
            /\ Effects(trace[s]) = {}

C1_Witness ==
    \E s, t \in Sessions :
        /\ Done(s) /\ IsPush(s) /\ access[s] = ReadOnlyAccess
        /\ Done(t) /\ IsUpload(t) /\ access[t] = NoAccess

\* C2: in a push session where a step failed and the internal failure was
\* reported, the observer is never invoked.
C2_NoObserverAfterFailure ==
    \A s \in Sessions :
        (IsPush(s) /\ Ops(trace[s], "log") # {}) => Ops(trace[s], "cb") = {}

\* The normalisation of the session has completed: HEAD resolved, or the
\* rename was run.
Normalized(tr) ==
    {i \in DOMAIN tr :
        \/ tr[i].op = "Head" /\ tr[i].a = <<Nil>>
        \/ tr[i].op = "exec" /\ tr[i].a[2] = "git" /\ tr[i].a[3] = "branch"}

\* C3: a push with ReadWrite or Admin access whose steps all succeed, with an
\* observer configured, invokes the observer exactly once, with the session's
\* repository and key, after the normalisation and before the downstream
\* handler, and writes no failure report.
C3_ObserverOnceOnSuccess ==
    \A s \in Sessions :
        (Done(s) /\ IsPush(s) /\ access[s] \in {ReadWriteAccess, AdminAccess}
                 /\ err[s] = Nil /\ cb) =>
            /\ Cardinality(Ops(trace[s], "cb")) = 1
            /\ \A i \in Ops(trace[s], "cb") :
                /\ trace[s][i].a = <<cmd[s][2], PublicKey(s)>>
                /\ Normalized(trace[s]) # {}
                /\ \A j \in Normalized(trace[s]) \cup Ops(trace[s], "exec") : j < i
                /\ \A j \in Ops(trace[s], "sh") : i < j
            /\ Written(trace[s]) = <<>>
            /\ Exits(trace[s]) = <<>>

C3_Witness ==
    \E s \in Sessions :
        /\ Done(s) /\ IsPush(s) /\ access[s] = AdminAccess /\ err[s] = Nil /\ cb
        /\ Ops(trace[s], "cb") # {}
        /\ \E i \in Ops(trace[s], "exec") : trace[s][i].a[3] = "branch"

\* C4: in every session the downstream handler is invoked exactly once, as the
\* last call of the handler, after all git logic of the session.
C4_DownstreamOnceAtEnd ==
    \A s \in Sessions :
        IF Done(s)
        THEN Ops(trace[s], "sh") = {Len(trace[s])}
        ELSE Ops(trace[s], "sh") = {}

C4_Witness ==
    \E s, t \in Sessions :
        /\ Done(s) /\ Exits(trace[s]) # <<>> /\ Ops(trace[s], "sh") # {}
        /\ Done(t) /\ ~IsPair(t) /\ Ops(trace[t], "sh") # {}

\* The sessions that have run git init --bare for the path of repository r.
Initializers(r) ==
    {s \in Sessions :
        \E i \in Ops(trace[s], "exec") :
            trace[s][i].a = <<"git", "init", "--bare", RepoPath(RepoDir, r)>>}

\* C5: under every interleaving of concurrent pushes to a repository that
\* does not exist yet, git init --bare is executed once for its path.
C5_SingleInit ==
    \A r \in Repos : Cardinality(Initializers(r)) <= 1

\* The session's stat of its repository path found nothing there.
SawNoRepo(s) ==
    \E i \in Ops(trace[s], "stat") :
        trace[s][i] = Ev("stat", <<RepoPath(RepoDir, cmd[s][2]), Nil>>, 0)

\* C6: an authorized upload command for a path that does not exist spawns
\* nothing, creates nothing, writes nothing, is not exited with an error, and
\* goes on to the downstream handler.
C6_UploadOfMissingRepoIsSilent ==
    \A s \in Sessions :
        (IsUpload(s) /\ access[s] \in {ReadOnlyAccess, ReadWriteAccess, AdminAccess}
                     /\ SawNoRepo(s)) =>
            /\ Effects(trace[s]) = {}
            /\ Written(trace[s]) = <<>>
            /\ Exits(trace[s]) = <<>>
            /\ err[s] = Nil
            /\ pc[s] \in {"uploadReturned", "Done"}
            /\ Done(s) => Cardinality(Ops(trace[s], "sh")) = 1

C6_Witness ==
    \E s, t \in Sessions :
        /\ Done(s) /\ IsUpload(s) /\ cmd[s][1] = "git-upload-archive"
        /\ access[s] = ReadOnlyAccess /\ SawNoRepo(s)
        /\ Done(t) /\ IsUpload(t) /\ cmd[t][1] = "git-upload-pack" /\ SawNoRepo(t)

\* C7: whenever a step of an authorized push or fetch fails, what is written
\* to the client is the pkt-line of "something went wrong", then exit status
\* 1, whatever the step and the cause.
C7_GenericFailureReport ==
    \A s \in Sessions :
        (Done(s) /\ err[s] # Nil) =>
            /\ Written(trace[s]) = <<Ev("Write", <<MalfunctionPkt>>, 0)>>
            /\ Exits(trace[s]) = <<Ev("Exit", <<>>, 1)>>
            /\ \A i \in Ops(trace[s], "Write"), j \in Ops(trace[s], "Exit") : i < j
            /\ \A i \in Ops(trace[s], "log") : trace[s][i].a = <<err[s]>>

C7_Witness ==
    \E s, t \in Sessions :
        /\ Done(s) /\ IsPush(s) /\ err[s] = "open"
        /\ Done(t) /\ IsUpload(t) /\ err[t] = "exec"
        /\ Written(trace[s]) = Written(trace[t])
        /\ Written(trace[s]) # <<>>

\* C8: a session with one of the three git subcommands and a repository
\* calls AuthRepo exactly once, before any existence check, creation or
\* subprocess of that session.
C8_AuthRepoOnceFirst ==
    \A s \in Sessions :
        (IsPair(s) /\ cmd[s][1] \in GitCommands) =>
            /\ Cardinality(Ops(trace[s], "AuthRepo")) = 1
            /\ \A i \in Ops(trace[s], "AuthRepo") :
                /\ trace[s][i].a = <<cmd[s][2], PublicKey(s)>>
                /\ \A j \in Ops(trace[s], "stat") \cup Effects(trace[s]) : i < j

C8_Witness ==
    \E s \in Sessions :
        /\ Done(s) /\ IsPush(s)
        /\ Ops(trace[s], "MkdirAll") # {}
        /\ Cardinality(Ops(trace[s], "exec")) >= 3

\* The indices of the branch renames a session has spawned.
Renames(tr) == {i \in Ops(tr, "exec") : tr[i].a[3] = "branch"}
\* The session's normalisation found HEAD resolving to an existing branch.
HeadResolved(tr) == {i \in Ops(tr, "Head") : tr[i].a = <<Nil>>}

\* C9: a push whose normalisation finds HEAD resolving spawns no rename and
\* reports no error; a rename is spawned only right after HEAD was found
\* unresolvable.
C9_RenameOnlyWhileHeadUnresolved ==
    \A s \in Sessions :
        /\ HeadResolved(trace[s]) # {} =>
            /\ Renames(trace[s]) = {}
            /\ err[s] = Nil
            /\ Written(trace[s]) = <<>>
            /\ Exits(trace[s]) = <<>>
        /\ \A i \in Renames(trace[s]) :
            /\ i > 1
            /\ trace[s][i - 1] = Ev("Head", <<ErrReferenceNotFound>>, 0)

\* A second push resolved HEAD to the branch an earlier push renamed it to.
C9_Witness ==
    \E s, t \in Sessions :
        /\ s # t /\ Done(s) /\ Done(t)
        /\ Renames(trace[t]) # {} /\ err[t] = Nil
        /\ \E i \in HeadResolved(trace[s]) :
            /\ trace[s][i].n # InitialBranch
            /\ \E j \in Renames(trace[t]) : trace[t][j].n = trace[s][i].n

\* C10: fatalGit writes one pkt-line, "%04x" of len(message)+5, the message
\* and a newline, and calls Exit(1) right after the write and not otherwise.
C10_PktLineThenExit ==
    \A s \in Sessions :
        /\ Cardinality(Ops(trace[s], "Write")) <= 1
        /\ \A i \in Ops(trace[s], "Write") :
            /\ trace[s][i].a = IF Denied(s) THEN <<NotAuthedPkt>> ELSE <<MalfunctionPkt>>
            /\ i < Len(trace[s])
            /\ trace[s][i + 1] = Ev("Exit", <<>>, 1)
        /\ \A j \in Ops(trace[s], "Exit") :
            /\ j > 1
            /\ trace[s][j - 1].op = "Write"

C10_Witness ==
    \E s, t \in Sessions :
        /\ Written(trace[s]) = <<Ev("Write", <<NotAuthedPkt>>, 0)>>
        /\ Written(trace[t]) = <<Ev("Write", <<MalfunctionPkt>>, 0)>>
        /\ Exits(trace[s]) # <<>> /\ Exits(trace[t]) # <<>>

\* The branch whose name comes first among bs.
SmallestBranch(bs) == CHOOSE b \in bs : \A c \in bs : b <= c

\* C11: when a push leaves several branches and HEAD does not resolve, the
\* branch taken as the new default is the one with the smallest name, whatever
\* order the library enumerates the branches in.
C11_SmallestBranchChosen ==
    [][\A s \in Sessions :
        (/\ pc[s] = "ensureDefaultBranch" /\ pc'[s] = "Head"
         /\ Cardinality(branches[Repo(s)]) > 1
         /\ head[Repo(s)] \notin branches[Repo(s)])
        => fb'[s] = SmallestBranch(branches[Repo(s)])]_vars

\* The session has arrived with a command that is not a git request: not two
\* elements, or a first element that is none of the three subcommands.
NotGit(s) == pc[s] # "Idle" /\ (~IsPair(s) \/ cmd[s][1] \notin GitCommands)

\* C13: a session whose command is not a git request writes nothing, is not
\* exited, spawns nothing, creates nothing, does not invoke the observer, and
\* is passed to the downstream handler.
C13_NotGitPassesThrough ==
    \A s \in Sessions :
        NotGit(s) =>
            /\ Ops(trace[s], "Write") = {}
            /\ Ops(trace[s], "Exit") = {}
            /\ Effects(trace[s]) = {}
            /\ Ops(trace[s], "cb") = {}
            /\ Done(s)
            /\ Cardinality(Ops(trace[s], "sh")) = 1

C13_Witness ==
    \E s, t \in Sessions :
        /\ NotGit(s) /\ IsPair(s) /\ cmd[s][1] = "ls" /\ Done(s)
        /\ NotGit(t) /\ Len(cmd[t]) = 3 /\ Done(t)

\* The step of the push path a call belongs to: 1 ensure repository,
\* 2 git-receive-pack, 3 git update-server-info, 4 default-branch
\* normalisation; 0 for a call that is none of them.
StepOf(e) ==
    CASE e.op \in {"stat", "MkdirAll"} -> 1
      [] e.op = "exec" /\ e.a[2] = "init" -> 1
      [] e.op = "exec" /\ e.a[2] = "git-receive-pack" -> 2
      [] e.op = "exec" /\ e.a[3] = "update-server-info" -> 3
      [] e.op = "exec" /\ e.a[3] = "branch" -> 4
      [] e.op \in {"PlainOpen", "Branches", "Next", "Head"} -> 4
      [] OTHER -> 0
\* The furthest step of the push path a trace has reached.
Reached(tr) ==
    IF \A i \in DOMAIN tr : StepOf(tr[i]) = 0 THEN 0
    ELSE CHOOSE k \in 1 .. 4 :
            /\ \E i \in DOMAIN tr : StepOf(tr[i]) = k
            /\ \A i \in DOMAIN tr : StepOf(tr[i]) <= k

\* C14: an authorized push runs ensure repository, git-receive-pack, git
\* update-server-info and the normalisation in that order; a call of a step
\* is made only while no earlier call has returned an error, never before
\* the previous step has run, and receive-pack and update-server-info once.
C14_PushStepsInOrder ==
    [][\A s \in Sessions :
        IsPush(s) =>
            \A i \in (Len(trace[s]) + 1) .. Len(trace'[s]) :
                LET k == StepOf(trace'[s][i]) IN
                k > 0 =>
                    /\ err[s] = Nil
                    /\ k >= Reached(trace[s])
                    /\ k <= Reached(trace[s]) + 1
                    /\ k \in {2, 3} => k > Reached(trace[s])]_vars

C14_Witness ==
    \E s, t \in Sessions :
        /\ Done(s) /\ IsPush(s) /\ err[s] = Nil /\ Reached(trace[s]) = 4
        /\ \A k \in 1 .. 4 : \E i \in DOMAIN trace[s] : StepOf(trace[s][i]) = k
        /\ Done(t) /\ IsPush(t) /\ err[t] = "exec" /\ Reached(trace[t]) = 3

\* The sessions whose rename of the default branch of r has run and
\* returned without error.
Renamers(r) ==
    {s \in Sessions :
        /\ IsPush(s) /\ cmd[s][2] = r
        /\ Renames(trace[s]) # {}
        /\ pc[s] \in {"pushReturned", "Done"} /\ err[s] = Nil}

\* C15: under every interleaving of concurrent pushes to a repository whose
\* HEAD does not resolve yet, at most one session finds HEAD unresolvable and
\* runs the rename of the default branch.
C15_SingleRename ==
    \A r \in Repos : Cardinality(Renamers(r)) <= 1

\* The calls of a session that look at or change the disk, spawn a process or
\* read the repository.
Work(tr) ==
    Ops(tr, "stat") \cup Effects(tr) \cup Ops(tr, "PlainOpen")
    \cup Ops(tr, "Branches") \cup Ops(tr, "Next") \cup Ops(tr, "Head")

\* C16: a session reports a failure at most once, repeats no call, and after
\* the report spawns nothing, creates nothing and reads nothing.
C16_ReportOnceThenNothing ==
    \A s \in Sessions :
        /\ Cardinality(Ops(trace[s], "Write")) <= 1
        /\ Cardinality(Ops(trace[s], "Exit")) <= 1
        /\ \A w \in Ops(trace[s], "Write"), j \in Work(trace[s]) : j < w
        /\ \A i, j \in Work(trace[s]) :
            (i # j /\ trace[s][i].op = trace[s][j].op)
                => trace[s][i].a # trace[s][j].a

C16_Witness ==
    \E s, t \in Sessions :
        /\ Done(s) /\ IsPush(s) /\ err[s] = "exec"
        /\ Cardinality(Ops(trace[s], "exec")) >= 2
        /\ Cardinality(Ops(trace[s], "Write")) = 1
        /\ Done(t) /\ Denied(t) /\ Cardinality(Ops(trace[t], "Write")) = 1

\* The session is a push that AuthRepo allowed.
AuthorizedPush(s) == IsPush(s) /\ access[s] \in {ReadWriteAccess, AdminAccess}

\* C17: no step removes a directory or repository, and a step that adds one
\* is a step of a git-receive-pack session with ReadWrite or Admin access.
C17_OnlyAuthorizedPushCreates ==
    [][/\ dirs \subseteq dirs'
       /\ \A s \in Sessions :
            (trace'[s] # trace[s] /\ ~AuthorizedPush(s)) => dirs' = dirs]_vars

C17_Witness ==
    \E s, t \in Sessions :
        /\ Done(s) /\ AuthorizedPush(s)
        /\ Ops(trace[s], "MkdirAll") # {}
        /\ s \in Initializers(cmd[s][2])
        /\ {RepoDir, Rp(s)} \subseteq dirs
        /\ Done(t) /\ IsUpload(t) /\ Ops(trace[t], "exec") # {}

\* The enumeration of the session's normalisation yielded no branch.
NoBranch(tr) == {i \in Ops(tr, "Next") : tr[i].a = <<"EOF">>}

\* C18: the first branch is fetched before HEAD is resolved; when the
\* enumeration yields no branch after receive-pack and update-server-info
\* succeeded, HEAD is not looked at, no rename is run, and the push is
\* reported as an internal failure with exit status 1.
C18_NoBranchIsInternalFailure ==
    \A s \in Sessions :
        /\ \A h \in Ops(trace[s], "Head") :
            \E n \in Ops(trace[s], "Next") : n < h /\ trace[s][n].a = <<Nil>>
        /\ NoBranch(trace[s]) # {} =>
            /\ \E i \in Ops(trace[s], "exec") : StepOf(trace[s][i]) = 2
            /\ \E i \in Ops(trace[s], "exec") : StepOf(trace[s][i]) = 3
            /\ Ops(trace[s], "Head") = {}
            /\ Renames(trace[s]) = {}
            /\ err[s] = "EOF"
            /\ pc[s] \in {"pushReturned", "Done"}
            /\ Done(s) =>
                /\ Written(trace[s]) = <<Ev("Write", <<MalfunctionPkt>>, 0)>>
                /\ Exits(trace[s]) = <<Ev("Exit", <<>>, 1)>>

\* The push found no branch, although by now HEAD names an existing branch.
C18_Witness ==
    \E s \in Sessions :
        /\ Done(s) /\ IsPush(s) /\ NoBranch(trace[s]) # {}
        /\ Written(trace[s]) # <<>>
        /\ head[cmd[s][2]] \in branches[cmd[s][2]]

\* The session's stat of its repository path failed with an error other
\* than not-exist.
StatFailed(s) ==
    \E i \in Ops(trace[s], "stat") :
        trace[s][i].a = <<RepoPath(RepoDir, cmd[s][2]), "stat">>

\* C19: on the fetch path a failing existence check is treated like a missing
\* repository: nothing is spawned and nothing is reported; an internal failure
\* is reported on the fetch path only when the pack subprocess has failed.
C19_FetchStatErrorIsSilent ==
    \A s \in Sessions :
        IsUpload(s) =>
            /\ StatFailed(s) =>
                /\ Ops(trace[s], "exec") = {}
                /\ Written(trace[s]) = <<>>
                /\ Exits(trace[s]) = <<>>
                /\ err[s] = Nil
                /\ pc[s] \in {"uploadReturned", "Done"}
            /\ (Written(trace[s]) # <<>> /\ ~Denied(s)) =>
                /\ err[s] = "exec"
                /\ \E i \in Ops(trace[s], "exec") :
                    trace[s][i].a = <<"./", cmd[s][1], RepoPath(RepoDir, cmd[s][2])>>

\* A fetch whose stat failed although the repository is there.
C19_Witness ==
    \E s \in Sessions :
        /\ Done(s) /\ IsUpload(s) /\ StatFailed(s)
        /\ access[s] = ReadOnlyAccess
        /\ RepoPath(RepoDir, cmd[s][2]) \in dirs
        /\ Written(trace[s]) = <<>>

\* C20: AuthRepo is asked on the shape of the command alone: once, first, in
\* every session whose command has two elements, whatever the first element,
\* and never in a session whose command has another length.
C20_AuthRepoOnShapeAlone ==
    \A s \in Sessions :
        pc[s] # "Idle" =>
            IF Len(cmd[s]) = 2
            THEN /\ Ops(trace[s], "AuthRepo") = {1}
                 /\ trace[s][1].a = <<cmd[s][2], PublicKey(s)>>
            ELSE Ops(trace[s], "AuthRepo") = {}

C20_Witness ==
    \E s, t \in Sessions :
        /\ Done(s) /\ IsPair(s) /\ cmd[s][1] = "ls"
        /\ Ops(trace[s], "AuthRepo") # {}
        /\ Done(t) /\ Len(cmd[t]) = 1 /\ Ops(trace[t], "AuthRepo") = {}

\* C12: when a session's context is cancelled while one of its subprocesses
\* is in flight, the subprocess is ended and the blocked call returns; no
\* subprocess of a session is left once its handler has returned.
C12_CancelEndsSubprocess ==
    /\ [](\A s \in Sessions : Done(s) => ~running[s])
    /\ \A s \in Sessions :
        (cancelled[s] /\ running[s]) ~> (~running[s] /\ pc[s] \notin RunLabels)

C12_Witness ==
    \E s \in Sessions :
        /\ cancelled[s] /\ Done(s) /\ err[s] = "killed"
        /\ \E i \in Ops(trace[s], "exec") : StepOf(trace[s][i]) = 2
        /\ Written(trace[s]) = <<Ev("Write", <<MalfunctionPkt>>, 0)>>
====
